---------------------------- MODULE Spec2Model ----------------------------
(***************************************************************************)
(* Model of the notebook testss.ipynb: cell 2 builds the float32 array     *)
(* "atoms" and the integer arrays "bonds", "angles", "dihedrals"; cells    *)
(* 4 to 8 query the atoms frame (column-wise max / min, shape).            *)
(*                                                                         *)
(* Numbers.  The atoms array is float32.  A cell of it is modelled as the  *)
(* IEEE-754 bit pattern of the value: an integer 0 .. 2^31-1 for a value   *)
(* >= 0 and the negated pattern of |v| for a value < 0, so that the order  *)
(* of the integers is the order of the values.  The operations of lines    *)
(* 21-23 and 29 are float32 operations: each gives the float32 nearest to  *)
(* the exact result, ties to even (FMul, FSub, FDiv, FromInt).  Every      *)
(* value of cell 2 is zero or a normal number (magnitudes between 2^-60    *)
(* and 2^25), so subnormals, infinities and NaN are not modelled.          *)
(* The arrays bonds, angles and dihedrals are integer arrays (astype(int)) *)
(* and hold plain integers.                                                *)
(***************************************************************************)
EXTENDS Integers, Sequences, FiniteSets

\* the names bound in the notebook's kernel (bound), the values they hold,
\* and of the cell run last: the query it made and where its value went
\* (call), the value it displayed (out, empty when it displayed none) and
\* the exception that ended it (err)
\* seed is the state np.random had when cell 2 drew the array
VARIABLES bound, seed, size, atoms, bonds, angles, dihedrals, maxes, xyz, call,
          out, err

vars == <<bound, seed, size, atoms, bonds, angles, dihedrals, maxes, xyz, call,
          out, err>>

---------------------------------------------------------------------------
(* Bounds of the model *)

\* a draw of np.random.rand is r/2^DrawBits, r in 0 .. 2^DrawBits-1
DrawBits == 28
\* the generator is seeded 0..MaxSeed
MaxSeed == 2
\* row counts are taken within Near of 0, of BandWidth and of 2*BandWidth
Near == 1
\* placeholder tables are built with 1..MaxWidth columns and 0..MaxRows rows
MaxWidth == 6
MaxRows == 20
\* the identifier column is read at its first Edge and its last Edge rows
Edge == 5

(* Program constants *)

\* cell 2: size = 1200
NotebookSize == 1200
\* cell 2: np.random.rand(size,6)
AtomsWidth == 6
\* cell 2: np.ones([size,4]), np.ones([size,5]), np.ones([size,6])
BondsWidth == 4
AnglesWidth == 5
DihedralsWidth == 6
\* cell 2: atoms[:100,1] = 2 and atoms[-100:,1] = 3
BandWidth == 100
\* cell 2: atoms*120-60 and atoms**2/10
ScaleFactor == 120
ShiftBy == 60
SquareDivisor == 10
\* cell 2: the three category codes
DefaultType == 1
FirstType == 2
LastType == 3
\* np.float32: a 24-bit significand (integers up to 2^24 are exact) and an
\* exponent biased by 127
MantissaBits == 24
ExponentBias == 127

Schema == <<"atom-id", "atom-type", "mol-type", "x-coor", "y-coor", "z-coor">>
CoorCols == <<"x-coor", "y-coor", "z-coor">>

Min2(a, b) == IF a < b THEN a ELSE b
Max2(a, b) == IF a > b THEN a ELSE b

---------------------------------------------------------------------------
(* float32 *)

\* the powers of two 2^0 .. 2^n, and 2^e for e up to 30
RECURSIVE Powers(_)
Powers(n) ==
  IF n = 0 THEN <<1>> ELSE LET p == Powers(n - 1) IN Append(p, 2 * p[n])
Pow2Table == Powers(MantissaBits + 6)
Pow2(e) == Pow2Table[e + 1]

RECURSIVE BitLength(_)
BitLength(n) == IF n = 0 THEN 0 ELSE 1 + BitLength(n \div 2)

FractionBits == MantissaBits - 1

Abs(c) == IF c < 0 THEN -c ELSE c
SignOf(c) == IF c < 0 THEN -1 ELSE 1

\* significand and exponent of the normal number with bit pattern c > 0:
\* its value is Mant(c) * 2^Expo(c)
Mant(c) == Pow2(FractionBits) + (c % Pow2(FractionBits))
Expo(c) == (c \div Pow2(FractionBits)) - ExponentBias - FractionBits

\* the float32 nearest to the exact value x >= 0, ties to even, where
\* x = m * 2^e, or, with sticky, m * 2^e < x < (m+1) * 2^e (m then has at
\* least MantissaBits + 2 bits)
Round(m, e, sticky) ==
  IF m = 0 THEN 0
  ELSE LET shift == BitLength(m) - MantissaBits
           q == IF shift > 0 THEN m \div Pow2(shift) ELSE m * Pow2(-shift)
           r == IF shift > 0 THEN m % Pow2(shift) ELSE 0
           up == /\ shift > 0
                 /\ \/ 2 * r > Pow2(shift)
                    \/ 2 * r = Pow2(shift) /\ (sticky \/ q % 2 = 1)
           q1 == IF up THEN q + 1 ELSE q
           carry == q1 = Pow2(MantissaBits)
           mant == IF carry THEN Pow2(FractionBits) ELSE q1
           ex == e + shift + (IF carry THEN 1 ELSE 0)
       IN (ex + FractionBits + ExponentBias) * Pow2(FractionBits)
            + (mant - Pow2(FractionBits))

\* the float32 nearest to the non-negative integer n (an int64 stored into
\* the float32 array, a Python int operand of a float32 array)
FromInt(n) == Round(n, 0, FALSE)

\* the integer a float32 c >= 0 holds, -1 when it holds no integer
WholeOf(c) ==
  IF c = 0 THEN 0
  ELSE IF Expo(c) >= 0 THEN Mant(c) * Pow2(Expo(c))
  ELSE IF -Expo(c) > FractionBits THEN -1
  ELSE IF Mant(c) % Pow2(-Expo(c)) = 0 THEN Mant(c) \div Pow2(-Expo(c))
  ELSE -1

\* a * b in float32: the 48-bit product of the significands, computed by
\* halves of the significands and kept to its leading bits and a sticky bit
FMul(a, b) ==
  IF a = 0 \/ b = 0 THEN 0
  ELSE LET limb == Pow2(MantissaBits \div 2)
           a1 == Mant(Abs(a)) \div limb
           a0 == Mant(Abs(a)) % limb
           b1 == Mant(Abs(b)) \div limb
           b0 == Mant(Abs(b)) % limb
           cross == (a1 * b0) + (a0 * b1)
           low == ((cross % limb) * limb) + (a0 * b0)
           lo == low % Pow2(MantissaBits)
           hi == (a1 * b1) + (cross \div limb) + (low \div Pow2(MantissaBits))
           cut == Pow2(MantissaBits - 4)
       IN SignOf(a) * SignOf(b)
            * Round((hi * Pow2(4)) + (lo \div cut),
                    Expo(Abs(a)) + Expo(Abs(b)) + MantissaBits - 4,
                    lo % cut # 0)

\* a - b in float32, for a >= 0 and b >= 0: the larger operand with three
\* guard bits, the smaller aligned to it with a sticky bit
FSub(a, b) ==
  IF a = b THEN 0
  ELSE LET big == Max2(a, b)
           small == Min2(a, b)
           sign == IF a > b THEN 1 ELSE -1
       IN IF small = 0 THEN sign * big
          ELSE LET eb == Expo(big) - 3
                   d == eb - Expo(small)
                   ms == IF d <= 0 THEN Mant(small) * Pow2(-d)
                         ELSE IF d >= MantissaBits THEN 0
                         ELSE Mant(small) \div Pow2(d)
                   sticky == /\ d > 0
                             /\ \/ d >= MantissaBits
                                \/ Mant(small) % Pow2(d) # 0
                   diff == (Mant(big) * Pow2(3)) - ms - (IF sticky THEN 1 ELSE 0)
               IN sign * Round(diff, eb, sticky)

\* n more bits of the quotient of r / d (r < d): <<bits, remainder>>
RECURSIVE LongDiv(_, _, _)
LongDiv(r, d, n) ==
  IF n = 0 THEN <<0, r>>
  ELSE LET bit == IF 2 * r >= d THEN 1 ELSE 0
           rest == LongDiv((2 * r) - (bit * d), d, n - 1)
       IN <<(bit * Pow2(n - 1)) + rest[1], rest[2]>>

\* a / b in float32, b # 0: the quotient of the significands to
\* MantissaBits + 3 fraction bits and a sticky bit
FDiv(a, b) ==
  IF a = 0 THEN 0
  ELSE LET ma == Mant(Abs(a))
           mb == Mant(Abs(b))
           n == MantissaBits + 3
           f == LongDiv(ma % mb, mb, n)
       IN SignOf(a) * SignOf(b)
            * Round(((ma \div mb) * Pow2(n)) + f[1],
                    Expo(Abs(a)) - Expo(Abs(b)) - n, f[2] # 0)

---------------------------------------------------------------------------
(* numpy *)

\* the generator of np.random: the draw at position p of the stream of a
\* generator seeded s, as the numerator r of r/2^DrawBits (the streams of
\* the seeds 0..MaxSeed+1 do not overlap within the largest array)
Modulus == 46337
Multiplier == 7919
SeedStride == 9000
Increment == 12345

\* The run whose outputs the notebook stores.  Cell 3 shows the first and
\* the last five rows of the frame, cell 4 the three column maxima and cell
\* 5 the three minima.  RecordedHead and RecordedTail hold the float32
\* draws (as bit patterns, columns x, y, z) that give the shown values: rows
\* 1-5 and 1196-1200, and, as rows 6 and 7, the draws of the maxima and of
\* the minima (the outputs do not say which rows hold them).  The rows not
\* shown are drawn from a stream (RecordedMultiplier) that stays within
\* those extremes.
RecordedSeed == -1
RecordedMultiplier == 5339
RecordedHead ==
  << <<1040011530, 1050637427, 1054236677>>,
     <<1051316821, 1060926243, 1050079209>>,
     <<1053584009, 1050639944, 1052961436>>,
     <<1025153403, 1048608514, 1042730394>>,
     <<1050663739, 1038222610, 1043736324>>,
     <<965867913, 970408197, 971811236>>,
     <<1056951198, 1056939473, 1056953045>> >>
RecordedTail ==
  << <<1056867169, 1047808947, 1052245701>>,
     <<1043677065, 1040632286, 1050371048>>,
     <<1041546121, 1040682090, 1046588986>>,
     <<1053197500, 1039383048, 1056850521>>,
     <<1035801769, 1046779101, 1052262586>> >>
\* cell 4's stored output array([359.59918, 359.40903, 359.35028]) as
\* float32 bit patterns, and for cell 5's 0.00023, 0.000808, 0.000171 (shown
\* to six decimals) float32 values that are displayed so
RecordedMaxes == <<1135856818, 1135850587, 1135848662>>
RecordedMins == <<963718222, 978571472, 959663264>>

StreamStart(s) == IF s = RecordedSeed THEN 0 ELSE SeedStride * s
StreamMultiplier(s) == IF s = RecordedSeed THEN RecordedMultiplier ELSE Multiplier

Mix(p, s, c) ==
  LET x == ((StreamMultiplier(s) * (p + StreamStart(s))) + c) % Modulus
  IN (x * x) % Modulus
Draw(p, s) ==
  ((Mix(p, s, Increment) * Modulus) + Mix(p, s, 2 * Increment)) % Pow2(DrawBits)

\* row i, column j is a draw the stored outputs determine
IsRecorded(i, j) ==
  /\ j > AtomsWidth - Len(CoorCols)
  /\ i <= Len(RecordedHead) \/ i > NotebookSize - Len(RecordedTail)
Recorded(i, j) ==
  IF i <= Len(RecordedHead) THEN RecordedHead[i][j - (AtomsWidth - Len(CoorCols))]
  ELSE RecordedTail[i - (NotebookSize - Len(RecordedTail))][j - (AtomsWidth - Len(CoorCols))]

\* np.random.rand(n, m).astype(np.float32): an n x m array filled in row
\* order from the stream of the generator, each draw rounded to float32
rand(n, m, s) ==
  [i \in 1..n |->
     [j \in 1..m |->
        IF s = RecordedSeed /\ IsRecorded(i, j) THEN Recorded(i, j)
        ELSE Round(Draw(((i - 1) * m) + (j - 1), s), -DrawBits, FALSE)]]

\* np.ones([n, m]).astype(int): an integer array, with its shape
ones(n, m) == [shape |-> <<n, m>>, data |-> [i \in 1..n |-> [j \in 1..m |-> 1]]]

\* np.arange(n) + 1, element i (1-based position i holds arange value i-1)
arange_plus_1(n) == [i \in 1..n |-> (i - 1) + 1]

\* a[-k:] taken one row too long
TailRows_one_more(n, k) == Max2(1, n - k) .. n

\* the rows selected by a[:k] and by a[-k:] on an array of n rows
HeadRows(n, k) == 1 .. Min2(k, n)
TailRows(n, k) == Max2(1, n - k + 1) .. n

\* a[rows, col] = v (col is the 1-based position of the column)
AssignScalar(a, rows, col, v) ==
  [i \in 1..Len(a) |-> IF i \in rows THEN [a[i] EXCEPT ![col] = v] ELSE a[i]]

\* a[:, col] = vals
AssignColumn(a, col, vals) ==
  [i \in 1..Len(a) |-> [a[i] EXCEPT ![col] = vals[i]]]

\* the Python ints of lines 22-23 as float32 operands
Float32ScaleFactor == FromInt(ScaleFactor)
Float32ShiftBy == FromInt(ShiftBy)
Float32SquareDivisor == FromInt(SquareDivisor)

\* a*120-60, element-wise (the draws are >= 0)
ScaleShift(a) ==
  [i \in 1..Len(a) |->
     [j \in 1..Len(a[i]) |-> FSub(FMul(a[i][j], Float32ScaleFactor), Float32ShiftBy)]]

\* a/10 without the square
SquareDiv_unsquared(a) ==
  [i \in 1..Len(a) |-> [j \in 1..Len(a[i]) |-> FDiv(a[i][j], Float32SquareDivisor)]]

\* a**2/10, element-wise
SquareDiv(a) ==
  [i \in 1..Len(a) |->
     [j \in 1..Len(a[i]) |-> FDiv(FMul(a[i][j], a[i][j]), Float32SquareDivisor)]]

---------------------------------------------------------------------------
(* cell 2, statement by statement *)

\* the column np.arange(n)+1 as the float32 array stores it
IdColumn(n) == [i \in 1..n |-> FromInt(arange_plus_1(n)[i])]

\* atoms[:,0] = np.arange(len(atoms))+1
SetAtomIds(a) == AssignColumn(a, 1, IdColumn(Len(a)))

\* bonds[:,0] = np.arange(len(bonds))+1   (an integer array)
SetIds(t) == [t EXCEPT !.data = AssignColumn(t.data, 1, arange_plus_1(Len(t.data)))]

\* the last two assignments in the other order: atoms[-100:,1] = 3 first
SetTypes_head_last(a) ==
  LET n == Len(a)
      a1 == AssignScalar(a, 1..n, 2, FromInt(DefaultType))
      a2 == AssignScalar(a1, TailRows(n, BandWidth), 2, FromInt(LastType))
  IN AssignScalar(a2, HeadRows(n, BandWidth), 2, FromInt(FirstType))

\* atoms[:,1] = 1 ; atoms[:100,1] = 2 ; atoms[-100:,1] = 3
SetTypes(a) ==
  LET n == Len(a)
      a1 == AssignScalar(a, 1..n, 2, FromInt(DefaultType))
      a2 == AssignScalar(a1, HeadRows(n, BandWidth), 2, FromInt(FirstType))
  IN AssignScalar(a2, TailRows(n, BandWidth), 2, FromInt(LastType))

\* atoms[:,2] = atoms[:,1]
CopyMolType(a) == AssignColumn(a, 3, [i \in 1..Len(a) |-> a[i][2]])

\* atoms = rand ; atoms = atoms*120-60 ; atoms = atoms**2/10
RandomCoordinates(count, s) == SquareDiv(ScaleShift(rand(count, AtomsWidth, s)))

\* pl.DataFrame(a, schema=...)
DataFrame(a, schema) == [schema |-> schema, rows |-> a]

\* atoms[:,2] = atoms[:,1] run before the types are set
generate_atoms_copy_first(count, s) ==
  DataFrame(SetTypes(CopyMolType(SetAtomIds(RandomCoordinates(count, s)))), Schema)

\* the atoms part of cell 2 for size = count
generate_atoms(count, s) ==
  DataFrame(CopyMolType(SetTypes(SetAtomIds(RandomCoordinates(count, s)))), Schema)

\* the table without its identifier assignment (as cell 2 leaves dihedrals)
generate_placeholder_table_no_ids(count, width) == ones(count, width)

\* np.ones([count,width]).astype(int) followed by t[:,0] = np.arange(len(t))+1
generate_placeholder_table(count, width) == SetIds(ones(count, width))

\* dihedrals = np.ones([size,6]).astype(int); cell 2 never assigns dihedrals[:,0]
generate_dihedrals(count) == ones(count, DihedralsWidth)

---------------------------------------------------------------------------
(* polars *)

\* a missing value, and a present one
Null == <<>>
Some(v) == <<v>>

HasColumn(schema, name) == \E j \in 1..Len(schema) : schema[j] = name
ColumnIndex(schema, name) == CHOOSE j \in 1..Len(schema) : schema[j] = name

\* cols names a column the frame does not have: select raises
\* ColumnNotFoundError
ColumnNotFound(df, cols) == \E k \in 1..Len(cols) : ~HasColumn(df.schema, cols[k])

\* select keeping the frame's own column order instead of the order asked for
select_frame_order(df, cols) ==
  IF ColumnNotFound(df, cols) THEN [status |-> "ColumnNotFoundError"]
  ELSE LET kept == SelectSeq(df.schema, LAMBDA c : \E k \in 1..Len(cols) : cols[k] = c)
       IN [status |-> "ok",
           frame |-> [schema |-> kept,
                      rows |-> [i \in 1..Len(df.rows) |->
                                 [k \in 1..Len(kept) |->
                                    df.rows[i][ColumnIndex(df.schema, kept[k])]]]]]

\* df.select(cols): the frame of the named columns, in the order asked for
select(df, cols) ==
  IF ~ColumnNotFound(df, cols)
  THEN [status |-> "ok",
        frame |-> [schema |-> cols,
                   rows |-> [i \in 1..Len(df.rows) |->
                              [k \in 1..Len(cols) |->
                                 df.rows[i][ColumnIndex(df.schema, cols[k])]]]]]
  ELSE [status |-> "ColumnNotFoundError"]

\* the reduction of column j over the rows lo..hi (lo <= hi), by halves
RECURSIVE ReduceMax(_, _, _, _)
ReduceMax(rows, j, lo, hi) ==
  IF lo = hi THEN rows[lo][j]
  ELSE LET mid == (lo + hi) \div 2
           l == ReduceMax(rows, j, lo, mid)
           r == ReduceMax(rows, j, mid + 1, hi)
       IN IF r > l THEN r ELSE l

RECURSIVE ReduceMin(_, _, _, _)
ReduceMin(rows, j, lo, hi) ==
  IF lo = hi THEN rows[lo][j]
  ELSE LET mid == (lo + hi) \div 2
           l == ReduceMin(rows, j, lo, mid)
           r == ReduceMin(rows, j, mid + 1, hi)
       IN IF r < l THEN r ELSE l

\* df.max(), df.min(): a frame of one row, null for a column without rows
max(df) ==
  [schema |-> df.schema,
   rows |-> << [j \in 1..Len(df.schema) |->
                  IF Len(df.rows) = 0 THEN Null
                  ELSE Some(ReduceMax(df.rows, j, 1, Len(df.rows)))] >>]

min(df) ==
  [schema |-> df.schema,
   rows |-> << [j \in 1..Len(df.schema) |->
                  IF Len(df.rows) = 0 THEN Null
                  ELSE Some(ReduceMin(df.rows, j, 1, Len(df.rows)))] >>]

\* float32 NaN (quiet), as its bit pattern
NaN == (((2 * ExponentBias) + 1) * Pow2(FractionBits)) + Pow2(FractionBits - 1)

\* df.to_numpy() of the frame max() returned: a float32 array, NaN where the
\* frame holds null
to_numpy(df) ==
  [i \in 1..Len(df.rows) |->
     [j \in 1..Len(df.rows[i]) |->
        IF df.rows[i][j] = Null THEN NaN ELSE df.rows[i][j][1]]]

\* a.flatten() (row-major)
RECURSIVE flatten(_)
flatten(a) == IF Len(a) = 0 THEN <<>> ELSE a[1] \o flatten(Tail(a))

\* the maxima of the columns the frame has, the others silently dropped
column_max_skip_absent(df, cols) ==
  LET present == SelectSeq(cols, LAMBDA c : HasColumn(df.schema, c))
  IN [status |-> "ok", values |-> flatten(to_numpy(max(select(df, present).frame)))]

\* atoms.select(cols).max().to_numpy().flatten()
column_max(df, cols) ==
  LET s == select(df, cols)
  IN IF s.status # "ok" THEN [status |-> s.status, values |-> <<>>]
     ELSE [status |-> "ok", values |-> flatten(to_numpy(max(s.frame)))]

\* atoms.select(cols).min(): the one row of the resulting frame
column_min(df, cols) ==
  LET s == select(df, cols)
  IN IF s.status # "ok" THEN [status |-> s.status, values |-> <<>>]
     ELSE [status |-> "ok", values |-> min(s.frame).rows[1]]

\* atoms.to_numpy().shape
shape(df) == <<Len(df.rows), Len(df.schema)>>

---------------------------------------------------------------------------
(* The notebook: its cells as actions on the kernel *)

\* the row counts cell 2 is run with
Counts ==
  (0 .. Near) \cup ((BandWidth - Near) .. (BandWidth + Near))
    \cup ((2 * BandWidth - Near) .. (2 * BandWidth + Near)) \cup {NotebookSize}

\* the states of the generator cell 2 is run with
Seeds == (0 .. MaxSeed) \cup {RecordedSeed}

\* the column lists the queries are run with: cell 4's own, columns of the
\* frame in another order, a single column, and a list naming a column the
\* frame does not have between two it has; no list repeats a name
ColumnLists ==
  { CoorCols, <<"z-coor", "atom-type", "x-coor">>, <<"atom-id">>,
    <<"x-coor", "charge", "y-coor">> }

Cell2Names == {"size", "atoms", "bonds", "angles", "dihedrals"}

Unbound == ones(0, 0)

Init ==
  /\ bound = {}
  /\ seed = 0
  /\ size = 0
  /\ atoms = DataFrame(<<>>, <<>>)
  /\ bonds = Unbound
  /\ angles = Unbound
  /\ dihedrals = Unbound
  /\ maxes = <<>>
  /\ xyz = <<>>
  /\ call = [op |-> "none", cols |-> <<>>, into |-> "none"]
  /\ out = <<>>
  /\ err = "none"

\* cell 2, run once, with size = count and the generator seeded s
Cell2(count, s) ==
  /\ "atoms" \notin bound
  /\ bound' = bound \cup Cell2Names
  /\ seed' = s
  /\ size' = count
  /\ atoms' = generate_atoms(count, s)
  /\ bonds' = generate_placeholder_table(count, BondsWidth)
  /\ angles' = generate_placeholder_table(count, AnglesWidth)
  /\ dihedrals' = generate_dihedrals(count)
  /\ err' = "none"
  /\ out' = <<>>
  /\ UNCHANGED <<maxes, xyz, call>>

\* atoms rebound to the selected columns (atoms = atoms.select(cols))
RunMax_rebind(df, cols) ==
  LET r == column_max(df, cols)
  IN [atoms |-> IF r.status = "ok" THEN select(df, cols).frame ELSE df,
      status |-> r.status, values |-> r.values]

\* what evaluating atoms.select(cols).max()... leaves: the frame bound to
\* atoms (select and max build new frames) and the value or the exception
RunMax(df, cols) ==
  LET r == column_max(df, cols)
  IN [atoms |-> df, status |-> r.status, values |-> r.values]

RunMin(df, cols) ==
  LET r == column_min(df, cols)
  IN [atoms |-> df, status |-> r.status, values |-> r.values]

\* cell 4 with the column list cols: the value is displayed, or the
\* exception ends the cell
ColumnMax(cols) ==
  /\ "atoms" \in bound
  /\ LET e == RunMax(atoms, cols)
     IN /\ atoms' = e.atoms
        /\ err' = (IF e.status = "ok" THEN "none" ELSE e.status)
        /\ out' = e.values
  /\ call' = [op |-> "max", cols |-> cols, into |-> "out"]
  /\ UNCHANGED <<bound, seed, size, bonds, angles, dihedrals, maxes, xyz>>

\* cell 5 with the column list cols
ColumnMin(cols) ==
  /\ "atoms" \in bound
  /\ LET e == RunMin(atoms, cols)
     IN /\ atoms' = e.atoms
        /\ err' = (IF e.status = "ok" THEN "none" ELSE e.status)
        /\ out' = e.values
  /\ call' = [op |-> "min", cols |-> cols, into |-> "out"]
  /\ UNCHANGED <<bound, seed, size, bonds, angles, dihedrals, maxes, xyz>>

\* cell 6: maxes = atoms.select(['x-coor','y-coor','z-coor']).max()...
Cell6 ==
  /\ "atoms" \in bound
  /\ LET e == RunMax(atoms, CoorCols)
     IN /\ atoms' = e.atoms
        /\ err' = (IF e.status = "ok" THEN "none" ELSE e.status)
        /\ maxes' = (IF e.status = "ok" THEN e.values ELSE maxes)
        /\ bound' = (IF e.status = "ok" THEN bound \cup {"maxes"} ELSE bound)
  /\ call' = [op |-> "max", cols |-> CoorCols, into |-> "maxes"]
  /\ out' = <<>>
  /\ UNCHANGED <<seed, size, bonds, angles, dihedrals, xyz>>

\* cell 7: x,y,z = maxes
Cell7 ==
  /\ "maxes" \in bound
  /\ Len(maxes) = 3
  /\ xyz' = [x |-> maxes[1], y |-> maxes[2], z |-> maxes[3]]
  /\ bound' = bound \cup {"x", "y", "z"}
  /\ err' = "none"
  /\ call' = [op |-> "none", cols |-> <<>>, into |-> "none"]
  /\ out' = <<>>
  /\ UNCHANGED <<seed, size, atoms, bonds, angles, dihedrals, maxes>>

\* cell 8: atoms.to_numpy().shape
Cell8 ==
  /\ "atoms" \in bound
  /\ out' = shape(atoms)
  /\ err' = "none"
  /\ call' = [op |-> "shape", cols |-> <<>>, into |-> "out"]
  /\ UNCHANGED <<bound, seed, size, atoms, bonds, angles, dihedrals, maxes, xyz>>

Next ==
  \/ \E count \in Counts, s \in Seeds : Cell2(count, s)
  \/ \E cols \in ColumnLists : ColumnMax(cols)
  \/ \E cols \in ColumnLists : ColumnMin(cols)
  \/ Cell6
  \/ Cell7
  \/ Cell8

Spec == Init /\ [][Next]_vars

---------------------------------------------------------------------------
(* The placeholder tables alone: np.ones([count,width]).astype(int) with   *)
(* its first column set, as cell 2 builds bonds and angles, for any width  *)

PlaceholderCounts == (0 .. MaxRows) \cup {NotebookSize}

Placeholder(count, width) ==
  /\ "bonds" \notin bound
  /\ bound' = bound \cup {"size", "bonds"}
  /\ size' = count
  /\ bonds' = generate_placeholder_table(count, width)
  /\ call' = [op |-> "placeholder", cols |-> <<>>, into |-> "bonds",
              count |-> count, width |-> width]
  /\ UNCHANGED <<seed, atoms, angles, dihedrals, maxes, xyz, out, err>>

NextPlaceholder ==
  \E count \in PlaceholderCounts, width \in 1..MaxWidth : Placeholder(count, width)

SpecPlaceholder == Init /\ [][NextPlaceholder]_vars

---------------------------------------------------------------------------
(* The identifier column alone: element i of np.arange(n)+1 as line 29     *)
(* stores it into the float32 array, for lengths n up to past 2^24.  The   *)
(* function is applied to an argument <<n, i>>; no array is built          *)

LargeCounts ==
  Counts \cup ((Pow2(MantissaBits) - Near) .. (Pow2(MantissaBits) + Near))

\* the argument is chosen, nothing is bound in the kernel
InitIdColumn ==
  /\ \E n \in LargeCounts : \E i \in HeadRows(n, Edge) \cup TailRows(n, Edge) :
       call = [op |-> "IdColumn", cols |-> <<>>, into |-> "out", n |-> n, row |-> i]
  /\ bound = {}
  /\ seed = 0
  /\ size = 0
  /\ atoms = DataFrame(<<>>, <<>>)
  /\ bonds = Unbound
  /\ angles = Unbound
  /\ dihedrals = Unbound
  /\ maxes = <<>>
  /\ xyz = <<>>
  /\ out = <<>>
  /\ err = "none"

\* IdColumn applied to the argument
ApplyIdColumn ==
  /\ call.op = "IdColumn"
  /\ out = <<>>
  /\ out' = <<IdColumn(call.n)[call.row]>>
  /\ UNCHANGED <<bound, seed, size, atoms, bonds, angles, dihedrals, maxes, xyz,
                 call, err>>

NextIdColumn == ApplyIdColumn

SpecIdColumn == InitIdColumn /\ [][NextIdColumn]_vars

---------------------------------------------------------------------------
(* Properties *)

Created == "atoms" \in bound

\* the cell of the float32 array that holds the integer n (n below 2^24)
Val(n) == FromInt(n)

Rows == 1 .. Len(atoms.rows)

HasAbsent(cols) == \E k \in 1..Len(cols) : ~HasColumn(Schema, cols[k])

IsQuery == call.op \in {"max", "min"}

\* what the query run last returned: displayed, or assigned to maxes
Returned == IF call.into = "maxes" THEN maxes ELSE out

\* C1: for every count >= 200 the identifier stored in row i of the atoms
\* array is the integer i (here at the first and the last rows, for the
\* lengths of LargeCounts, which reach past 2^24)
C1_IdsAreRowNumbers ==
  (call.op = "IdColumn" /\ out # <<>> /\ call.n >= 2 * BandWidth) =>
    WholeOf(out[1]) = call.row

\* C2: for count >= 200 the atom-type column is 2 in the first 100 rows,
\* 3 in the last 100 rows and 1 in every other row
C2_ThreeBands ==
  (Created /\ size >= 2 * BandWidth) =>
    /\ Len(atoms.rows) = size
    /\ \A i \in Rows :
         atoms.rows[i][2] =
           IF i <= BandWidth THEN Val(FirstType)
           ELSE IF i > size - BandWidth THEN Val(LastType)
           ELSE Val(DefaultType)

C2_Witness ==
  /\ Created
  /\ size > 2 * BandWidth
  /\ atoms.rows[BandWidth][2] = Val(FirstType)
  /\ atoms.rows[BandWidth + 1][2] = Val(DefaultType)
  /\ atoms.rows[size - BandWidth][2] = Val(DefaultType)
  /\ atoms.rows[size - BandWidth + 1][2] = Val(LastType)

\* C9: in the finished atoms table mol-type equals atom-type in every row,
\* and atom-type holds one of the three category codes
C9_MolTypeMirrors ==
  Created =>
    \A i \in Rows :
      /\ atoms.rows[i][3] = atoms.rows[i][2]
      /\ atoms.rows[i][3] \in {Val(DefaultType), Val(FirstType), Val(LastType)}

C9_Witness ==
  /\ Created
  /\ size > 2 * BandWidth
  /\ atoms.rows[1][3] = Val(FirstType)
  /\ atoms.rows[BandWidth + 1][3] = Val(DefaultType)
  /\ atoms.rows[size][3] = Val(LastType)

\* C10: for count < 200 the later assignment wins: the last min(100, count)
\* rows have code 3, the rows of the first 100 that are not among the last
\* 100 have code 2, no row has code 1, and for count <= 100 every row has
\* code 3
C10_OverlapLastWins ==
  (Created /\ size < 2 * BandWidth) =>
    /\ Len(atoms.rows) = size
    /\ \A i \in Rows :
         /\ i > size - Min2(BandWidth, size) => atoms.rows[i][2] = Val(LastType)
         /\ (i <= BandWidth /\ i <= size - BandWidth) => atoms.rows[i][2] = Val(FirstType)
         /\ atoms.rows[i][2] # Val(DefaultType)
         /\ size <= BandWidth => atoms.rows[i][2] = Val(LastType)

C10_Witness ==
  /\ Created
  /\ size > BandWidth
  /\ size < 2 * BandWidth
  /\ atoms.rows[size - BandWidth][2] = Val(FirstType)
  /\ atoms.rows[size - BandWidth + 1][2] = Val(LastType)
  /\ atoms.rows[BandWidth][2] = Val(LastType)

\* the draw of row i, column j of the atoms array
DrawOf(i, j) == rand(size, AtomsWidth, seed)[i][j]

\* C6: every coordinate of the atoms table is >= 0 (and at most 60^2/10);
\* as cell 2 leaves the table it is the float32 value of ((u*120-60)^2)/10
\* for its draw u
C6_CoordinatesNonNegative ==
  Created =>
    \A i \in Rows : \A j \in 4..AtomsWidth :
      /\ atoms.rows[i][j] >= 0
      /\ atoms.rows[i][j] <= FromInt((ShiftBy * ShiftBy) \div SquareDivisor)
      /\ (call.op = "none" /\ "maxes" \notin bound) =>
           LET x == FSub(FMul(DrawOf(i, j), Float32ScaleFactor), Float32ShiftBy)
           IN atoms.rows[i][j] = FDiv(FMul(x, x), Float32SquareDivisor)

\* the recorded run: row 1 shows x-coor 203.917572, from a draw below 1/2
\* (scaled value below 0), and row 2 shows y-coor 80.291885, from a draw
\* above 1/2
C6_Witness ==
  /\ Created
  /\ seed = RecordedSeed
  /\ size = NotebookSize
  /\ DrawOf(1, 4) < Round(1, -1, FALSE)
  /\ atoms.rows[1][4] = 1129048806
  /\ DrawOf(2, 5) > Round(1, -1, FALSE)
  /\ atoms.rows[2][5] = 1117820274

\* C3: generate_placeholder_table(count, width) has count rows and width
\* columns, its first column is 1..count in row order and every other cell
\* is 1
C3_PlaceholderTable ==
  call.op = "placeholder" =>
    /\ bonds.shape = <<call.count, call.width>>
    /\ Len(bonds.data) = call.count
    /\ \A i \in 1..Len(bonds.data) :
         /\ Len(bonds.data[i]) = call.width
         /\ bonds.data[i][1] = i
         /\ \A j \in 2..call.width : bonds.data[i][j] = 1

C3_Witness ==
  /\ call.op = "placeholder"
  /\ call.count = NotebookSize
  /\ call.width = BondsWidth
  /\ bonds.data[1] = <<1, 1, 1, 1>>
  /\ bonds.data[NotebookSize] = <<NotebookSize, 1, 1, 1>>

\* the first column of the integer table t is 1..size in row order and
\* every other cell is the placeholder 1
IdsSetOnly(t) ==
  /\ t.shape[1] = size
  /\ \A i \in 1..Len(t.data) :
       /\ t.data[i][1] = i
       /\ \A j \in 2..t.shape[2] : t.data[i][j] = 1

\* C4: after cell 2 each of bonds, angles and dihedrals has its first
\* column set to 1..size and no other cell differs from 1
C4_AuxiliaryIds ==
  Created => (IdsSetOnly(bonds) /\ IdsSetOnly(angles) /\ IdsSetOnly(dihedrals))

\* C5: on a list of existing columns column_max and column_min return one
\* value per requested column, in the order requested; no row exceeds the
\* maximum or is below the minimum, and on a table with rows each value is
\* the value of that column in some row (column_max returns an array of
\* float32, column_min the row of a frame; on a table without rows they
\* hold NaN and null)
C5_MaxMinBounds ==
  (Created /\ IsQuery /\ ~HasAbsent(call.cols)) =>
    /\ err = "none"
    /\ Len(Returned) = Len(call.cols)
    /\ \A k \in 1..Len(call.cols) :
         LET j == ColumnIndex(Schema, call.cols[k])
             v == Returned[k]
         IN IF size = 0 THEN v = (IF call.op = "max" THEN NaN ELSE Null)
            ELSE IF call.op = "max"
            THEN /\ \E i \in Rows : v = atoms.rows[i][j]
                 /\ \A i \in Rows : atoms.rows[i][j] <= v
            ELSE /\ \E i \in Rows : v = Some(atoms.rows[i][j])
                 /\ \A i \in Rows : atoms.rows[i][j] >= v[1]

\* the recorded run queried for the maximum of (z-coor, atom-type, x-coor):
\* the maxima cell 4 shows for z and x, and the code of the last band
C5_Witness ==
  /\ Created
  /\ seed = RecordedSeed
  /\ size = NotebookSize
  /\ call = [op |-> "max", cols |-> <<"z-coor", "atom-type", "x-coor">>, into |-> "out"]
  /\ err = "none"
  /\ out = <<RecordedMaxes[3], Val(LastType), RecordedMaxes[1]>>
  /\ \E i \in Rows : atoms.rows[i][4] # out[3]
  /\ \E i \in Rows : atoms.rows[i][6] # out[1]

\* C7: a column_max or column_min whose list names a column the table
\* lacks ends with ColumnNotFoundError, yields no value (none for the
\* existing columns of the list either) and leaves the table and the
\* bound results as they were
C7_ColumnNotFound ==
  [][ (call'.op \in {"max", "min"} /\ HasAbsent(call'.cols)) =>
        /\ err' = "ColumnNotFoundError"
        /\ out' = <<>>
        /\ atoms' = atoms
        /\ maxes' = maxes
        /\ bound' = bound ]_vars

\* a failed query for an existing, an absent and another existing column,
\* on a table with rows
C7_Witness ==
  /\ Created
  /\ size > 2 * BandWidth
  /\ call.op = "max"
  /\ call.cols = <<"x-coor", "charge", "y-coor">>
  /\ err = "ColumnNotFoundError"
  /\ out = <<>>
  /\ "maxes" \in bound

\* C8: once created, the atoms table is never changed by a later cell
C8_AtomsNeverMutated ==
  [][ Created => (atoms' = atoms /\ Created') ]_vars

\* the recorded run after cells 6, 7 and 5: maxes and the displayed minima
\* are the stored outputs and the table is still as cell 2 built it
C8_Witness ==
  /\ Created
  /\ seed = RecordedSeed
  /\ size = NotebookSize
  /\ "x" \in bound
  /\ maxes = RecordedMaxes
  /\ call = [op |-> "min", cols |-> CoorCols, into |-> "out"]
  /\ err = "none"
  /\ out = <<Some(RecordedMins[1]), Some(RecordedMins[2]), Some(RecordedMins[3])>>
  /\ atoms = generate_atoms(size, seed)

=============================================================================
